---------------------------- MODULE Spec2Model ----------------------------
(***************************************************************************)
(* Register-level access layer of the CDCx913 clock generator              *)
(* (src/src/lib.rs, src/src/registers.rs, src/src/i2c.rs).                 *)
(*                                                                         *)
(* The device is a register file behind an I2C bus.  Every facade          *)
(* operation is a straight-line sequence of bus transactions; each         *)
(* transaction is one step of the model, because each `.await` is a point  *)
(* where the calling task may be suspended and where the transaction may   *)
(* fail.  Bytes are integers 0..255, enum values are their `repr(u8)`      *)
(* discriminants, booleans are 0/1.                                        *)
(***************************************************************************)
EXTENDS Integers, Sequences, FiniteSets, TLC

(***************************************************************************)
(* Bit arithmetic of the `bitfield` crate on a u8/u32 storage word.        *)
(***************************************************************************)

\* getter generated by bitfield!: bits msb..lsb of word, right-aligned
bit_range(word, msb, lsb) == (word \div (2 ^ lsb)) % (2 ^ (msb - lsb + 1))

\* setter generated by bitfield!: replace bits msb..lsb by value, truncated
\* to the width of the field; all other bits are kept
set_bit_range(word, msb, lsb, value) ==
    word - bit_range(word, msb, lsb) * (2 ^ lsb)
         + (value % (2 ^ (msb - lsb + 1))) * (2 ^ lsb)

\* `x as u8`
as_u8(x) == x % 256

(***************************************************************************)
(* Results.  Ok(v), Err(e) for a transport error e, and Panic for a Rust   *)
(* panic (assert!, todo!, unreachable!) unwinding out of the operation.    *)
(***************************************************************************)
\* val is the returned integer, w the returned u32 (a PllSettings word)
NoWord == <<0, 0>>
Ok(v) == [tag |-> "Ok", val |-> v, w |-> NoWord]
OkWord(w) == [tag |-> "Ok", val |-> 0, w |-> w]
Err(e) == [tag |-> "Err", val |-> e, w |-> NoWord]
Panic == [tag |-> "Panic", val |-> 0, w |-> NoWord]

\* arbitrary_int's uN::new(value): asserts value <= uN::MAX
uN_new(n, value) == IF value < 2 ^ n THEN Ok(value) ELSE Panic

(***************************************************************************)
(* i2c.rs                                                                  *)
(***************************************************************************)
ADDRESS == 101

\* OpCode as the bool handed to set_mode: Byte = 1, Block = 0
OpCodeByte == 1
OpCodeBlock == 0

\* faulty variant of CommandCode::new: the offset is not masked to 7 bits
CommandCode_new_unmasked(op_code, offset) ==
    (set_bit_range(0, 7, 7, op_code) + offset) % 256

\* CommandCode::new(op_code, offset): mode in bit 7, offset in bits 6..0
CommandCode_new(op_code, offset) ==
    set_bit_range(set_bit_range(0, 7, 7, op_code), 6, 0, offset)

(***************************************************************************)
(* registers.rs: the bit layout of every register as <<msb, lsb>> per      *)
(* field, as declared in the bitfield! blocks.                             *)
(***************************************************************************)
GenericConfigurationRegister0(f) ==
    CASE f = "e_el" -> <<7, 7>>
      [] f = "rid" -> <<6, 4>>
      [] f = "vid" -> <<3, 0>>

GenericConfigurationRegister1(f) ==
    CASE f = "_eepip" -> <<6, 6>>
      [] f = "eelock" -> <<5, 5>>
      [] f = "pwdn" -> <<4, 4>>
      [] f = "_inclk" -> <<3, 2>>
      [] f = "target_adr" -> <<1, 0>>

GenericConfigurationRegister2(f) ==
    CASE f = "_m1" -> <<7, 7>>
      [] f = "_spicon" -> <<6, 6>>
      [] f = "y1_st1" -> <<5, 4>>
      [] f = "y1_st0" -> <<3, 2>>
      [] f = "pdiv1_9_8" -> <<1, 0>>

GenericConfigurationRegister3(f) ==
    CASE f = "pdiv1_7_0" -> <<7, 0>>

GenericConfigurationRegister5(f) ==
    CASE f = "xcsel" -> <<7, 3>>
      [] f = "reserved" -> <<2, 0>>

GenericConfigurationRegister6(f) ==
    CASE f = "bcount" -> <<7, 1>>
      [] f = "eewrite" -> <<0, 0>>

Pll1ConfigurationRegister0(f) ==
    CASE f = "ssc1_7" -> <<7, 5>>
      [] f = "ssc1_6" -> <<4, 2>>
      [] f = "ssc1_5" -> <<1, 0>>

Pll1ConfigurationRegister1(f) ==
    CASE f = "ssc1_5" -> <<7, 7>>
      [] f = "ssc1_4" -> <<6, 4>>
      [] f = "ssc1_3" -> <<3, 1>>
      [] f = "ssc1_2" -> <<0, 0>>

Pll1ConfigurationRegister2(f) ==
    CASE f = "ssc1_2" -> <<7, 6>>
      [] f = "ssc1_1" -> <<6, 3>>
      [] f = "ssc1_0" -> <<2, 0>>

Pll1ConfigurationRegister4(f) ==
    CASE f = "_mux1" -> <<7, 7>>
      [] f = "_m2" -> <<6, 6>>
      [] f = "_m3" -> <<5, 4>>
      [] f = "y2y3_st1" -> <<3, 2>>
      [] f = "y2y3_st0" -> <<1, 0>>

Pll1ConfigurationRegister6(f) ==
    CASE f = "_ssc1dc" -> <<7, 7>>
      [] f = "pdiv2" -> <<6, 0>>

Pll1ConfigurationRegister7(f) ==
    CASE f = "reserved" -> <<7, 7>>
      [] f = "pdiv3" -> <<6, 0>>

\* field getter / setter of a register byte, given the field's <<msb, lsb>>
get(reg, field) == bit_range(reg, field[1], field[2])
set(reg, field, value) == set_bit_range(reg, field[1], field[2], value)


\* a | b on unsigned words
RECURSIVE bit_or(_, _)
bit_or(a, b) ==
    IF a = 0 THEN b
    ELSE IF b = 0 THEN a
    ELSE (IF a % 2 = 1 \/ b % 2 = 1 THEN 1 ELSE 0) + 2 * bit_or(a \div 2, b \div 2)

\* faulty variant of shl: the shift is forgotten
shl_forgotten(a, n, width) == a % (2 ^ width)

\* a << n on a u8 / u16 / u32 of the given width
shl(a, n, width) == (a * (2 ^ n)) % (2 ^ width)

(***************************************************************************)
(* registers.rs: semantic decoders and encoders                            *)
(***************************************************************************)
Xtal == 0
Vcxo == 1
LvCmos == 2

\* faulty variant of input_clock_selection: the raw field, no fallback
input_clock_selection_raw(reg) == get(reg, GenericConfigurationRegister1("_inclk"))

\* GenericConfigurationRegister1::input_clock_selection
input_clock_selection(reg) ==
    LET inclk == get(reg, GenericConfigurationRegister1("_inclk"))
    IN CASE inclk = 0 -> Xtal
         [] inclk = 1 -> Vcxo
         [] inclk = 2 -> LvCmos
         [] OTHER -> Xtal

\* faulty variant of pdiv1_full_value: the two registers are taken in the
\* wrong roles
pdiv1_full_value_swapped(reg3, reg2) ==
    LET upper == get(reg3, GenericConfigurationRegister2("pdiv1_9_8"))
        lower == get(reg2, GenericConfigurationRegister3("pdiv1_7_0"))
    IN bit_or((upper * 256) % 65536, lower)

\* GenericConfigurationRegister3::pdiv1_full_value(&self, reg2)
pdiv1_full_value(reg3, reg2) ==
    LET upper == get(reg2, GenericConfigurationRegister2("pdiv1_9_8"))
        lower == get(reg3, GenericConfigurationRegister3("pdiv1_7_0"))
    IN bit_or(shl(upper, 8, 16), lower)

\* GenericConfigurationRegister5::crystal_load_capacitance_pf:
\* match self.xcsel() { x @ 0x00..0x14 => x, _ => 20 }
crystal_load_capacitance_pf(reg) ==
    LET x == get(reg, GenericConfigurationRegister5("xcsel"))
    IN IF 0 <= x /\ x < 20 THEN x ELSE 20

\* faulty variant of set_crystal_load_capacitance_pf: no clamp, the field
\* setter truncates pf to five bits
set_crystal_load_capacitance_pf_wrapping(reg, pf) ==
    set(reg, GenericConfigurationRegister5("xcsel"), pf)

\* GenericConfigurationRegister5::set_crystal_load_capacitance_pf:
\* let value = match pf { x @ 0x00..0x14 => x, _ => 20 }; self.set_xcsel(value)
set_crystal_load_capacitance_pf(reg, pf) ==
    LET value == IF 0 <= pf /\ pf < 20 THEN pf ELSE 20
    IN set(reg, GenericConfigurationRegister5("xcsel"), value)

\* index-th bit test `self.0 & (1 << index) == 0` of the *_selection getters
\* (GenericConfigurationRegister4, Pll1ConfigurationRegister3 and 5)
state_selection(reg, index) ==
    IF bit_range(reg, index, index) = 0 THEN 0 ELSE 1

\* faulty variant of set_state_selection: the bit is OR-ed in, never cleared
set_state_selection_or(reg, index, bit_value) == bit_or(reg, shl(bit_value, index, 8))

\* `self.0 = (self.0 & !(1 << index)) | (bit_value << index)` of the
\* *_selection setters
set_state_selection(reg, index, bit_value) ==
    bit_or(reg - bit_range(reg, index, index) * (2 ^ index),
           shl(bit_value, index, 8))

\* faulty variant of from_be_bytes: the first byte is the least significant
from_le_bytes(b) == << b[4] * 256 + b[3], b[2] * 256 + b[1] >>

\* u32::from_be_bytes / to_be_bytes.  A u32 is the pair <<bits 31..16,
\* bits 15..0>> of its 16-bit halves.
from_be_bytes(b) == << b[1] * 256 + b[2], b[3] * 256 + b[4] >>
\* faulty variant of to_be_bytes: least significant byte first
to_le_bytes(w) ==
    << w[2] % 256, (w[2] \div 256) % 256, w[1] % 256, (w[1] \div 256) % 256 >>

to_be_bytes(w) ==
    << (w[1] \div 256) % 256, w[1] % 256, (w[2] \div 256) % 256, w[2] % 256 >>

(***************************************************************************)
(* registers.rs: PllSettings(u32).  The word is the pair <<bits 31..16,     *)
(* bits 15..0>>; a field may straddle the two halves.                      *)
(***************************************************************************)
Min(a, b) == IF a <= b THEN a ELSE b
Max(a, b) == IF a >= b THEN a ELSE b

\* the part of bits msb..lsb that lies in the low half: its width
low_width(msb, lsb) == IF lsb <= 15 THEN Min(msb, 15) - lsb + 1 ELSE 0

\* getter generated by bitfield! on a u32: bits msb..lsb, right-aligned
bit_range_u32(w, msb, lsb) ==
    LET lo == IF lsb <= 15 THEN bit_range(w[2], Min(msb, 15), lsb) ELSE 0
        hi == IF msb >= 16 THEN bit_range(w[1], msb - 16, Max(lsb, 16) - 16) ELSE 0
    IN lo + hi * (2 ^ low_width(msb, lsb))

\* faulty variant of set_bit_range_u32: the part of the field in bits 31..16
\* is not written
set_bit_range_u32_low_half(w, msb, lsb, value) ==
    << w[1],
       IF lsb <= 15
       THEN set_bit_range(w[2], Min(msb, 15), lsb,
                          (value % (2 ^ (msb - lsb + 1))) % (2 ^ low_width(msb, lsb)))
       ELSE w[2] >>

\* setter generated by bitfield! on a u32: (value << lsb) & mask replaces
\* bits msb..lsb, so value is truncated to the width of the field
set_bit_range_u32(w, msb, lsb, value) ==
    LET v == value % (2 ^ (msb - lsb + 1))
        lw == low_width(msb, lsb)
    IN << IF msb >= 16
          THEN set_bit_range(w[1], msb - 16, Max(lsb, 16) - 16, v \div (2 ^ lw))
          ELSE w[1],
          IF lsb <= 15
          THEN set_bit_range(w[2], Min(msb, 15), lsb, v % (2 ^ lw))
          ELSE w[2] >>

\* the fields of PllSettings as <<msb, lsb>>
PllSettings(f) ==
    CASE f = "pllx_yn" -> <<31, 20>>
      [] f = "pllx_yr" -> <<19, 11>>
      [] f = "pllx_yq" -> <<10, 5>>
      [] f = "pllx_yp" -> <<4, 2>>
      [] f = "_vco1x_y_range" -> <<1, 0>>

PllSettingsFields == { "pllx_yn", "pllx_yr", "pllx_yq", "pllx_yp", "_vco1x_y_range" }

\* the storage type of each field's getter and setter (u16 or u8), in bits
PllSettingsFieldType(f) == IF f \in { "pllx_yn", "pllx_yr" } THEN 16 ELSE 8

\* settings.<field>() and settings.set_<field>(value)
PllSettings_get(w, f) ==
    bit_range_u32(w, PllSettings(f)[1], PllSettings(f)[2]) % (2 ^ PllSettingsFieldType(f))
PllSettings_set(w, f, value) ==
    set_bit_range_u32(w, PllSettings(f)[1], PllSettings(f)[2], value)

\* registers.rs: Pll1ConfigurationRegister8 .. B (PLL1_0) and C .. F
\* (PLL1_1), the same word seen one register at a time
Pll1ConfigurationRegister8(f) ==
    CASE f = "pll1_0n_11_4" -> <<7, 0>>
Pll1ConfigurationRegister9(f) ==
    CASE f = "pll1_0n_3_0" -> <<7, 4>>
      [] f = "pll1_0r_8_5" -> <<3, 0>>
Pll1ConfigurationRegisterA(f) ==
    CASE f = "pll1_0r_4_0" -> <<7, 3>>
      [] f = "pll1_0q_5_3" -> <<2, 0>>
Pll1ConfigurationRegisterB(f) ==
    CASE f = "pll1_0q_2_0" -> <<7, 5>>
      [] f = "pll1_0p_2_0" -> <<4, 2>>
      [] f = "_vco1_0_range" -> <<1, 0>>
Pll1ConfigurationRegisterC(f) ==
    CASE f = "pll1_1n_11_4" -> <<7, 0>>
Pll1ConfigurationRegisterD(f) ==
    CASE f = "pll1_1n_3_0" -> <<7, 4>>
      [] f = "pll1_1r_8_5" -> <<3, 0>>
Pll1ConfigurationRegisterE(f) ==
    CASE f = "pll1_1r_4_0" -> <<7, 3>>
      [] f = "pll1_1q_5_3" -> <<2, 0>>
Pll1ConfigurationRegisterF(f) ==
    CASE f = "pll1_1q_2_0" -> <<7, 5>>
      [] f = "pll1_1p_2_0" -> <<4, 2>>
      [] f = "_vco1_1_range" -> <<1, 0>>

(***************************************************************************)
(* lib.rs: the facade.  An operation is a script: the sequence of bus      *)
(* transactions it awaits, in program order.  A step is                    *)
(*   [rw |-> "R", off]            read_byte_unchecked(off)                  *)
(*   [rw |-> "W", off, fn, f, x]  write_byte_unchecked(off, value), where   *)
(*        value is the closure fn applied to the byte the preceding read    *)
(*        of the same modify cycle returned (fn = "imm": the value x).      *)
(* `?` after each await makes the first failing transaction end the        *)
(* operation; that is the engine's BusErr action below.                    *)
(***************************************************************************)
GenericConfiguration == 0
Pll1Configuration == 16

NoField == <<0, 0>>

read_byte_unchecked(offset) ==
    << [rw |-> "R", off |-> offset, fn |-> "none", f |-> NoField, x |-> 0] >>

write_byte_unchecked(offset, value) ==
    << [rw |-> "W", off |-> offset, fn |-> "imm", f |-> NoField, x |-> value] >>

\* faulty variant of with: the byte is written back after the read
with_write_back(offset) ==
    read_byte_unchecked(offset)
        \o << [rw |-> "W", off |-> offset, fn |-> "not", f |-> NoField, x |-> 0] >>

\* with::<T, _>(offset, f): one read, then the closure on the decoded byte
with(offset) == read_byte_unchecked(offset)

\* modify_byte_unchecked::<T, _>(offset, f): read, closure, write back
modify_byte_unchecked(offset, fn, f, x) ==
    read_byte_unchecked(offset)
        \o << [rw |-> "W", off |-> offset, fn |-> fn, f |-> f, x |-> x] >>

\* the closure of a modify cycle applied to the register byte it read
Closure(step, reg) ==
    CASE step.fn = "imm" -> step.x
      [] step.fn = "field" -> set(reg, step.f, step.x)
      [] step.fn = "selection" -> set_state_selection(reg, step.f[1], step.x)
      [] step.fn = "xcsel" -> set_crystal_load_capacitance_pf(reg, step.x)
      [] step.fn = "not" -> 255 - reg
      [] step.fn = "id" -> reg

\* faulty variant of modify!: the offset within the bank is dropped
modify_bank_start(bank, offset, f, x) == modify_byte_unchecked(bank, "field", f, x)

\* read!(self, bank, offset, ..) and modify!(self, bank, offset, ..)
read(bank, offset) == with(bank + offset)
modify(bank, offset, f, x) == modify_byte_unchecked(bank + offset, "field", f, x)

\* spread_spectrum_clocking_selection_raw: the reads of each match arm
ssc_raw_reads(control_input) ==
    CASE control_input = 7 -> read(Pll1Configuration, 0)
      [] control_input = 6 -> read(Pll1Configuration, 0)
      [] control_input = 5 -> read(Pll1Configuration, 0) \o read(Pll1Configuration, 1)
      [] control_input = 4 -> read(Pll1Configuration, 1)
      [] control_input = 3 -> read(Pll1Configuration, 1)
      [] control_input = 2 -> read(Pll1Configuration, 1) \o read(Pll1Configuration, 2)
      [] control_input = 1 -> read(Pll1Configuration, 2)
      [] control_input = 0 -> read(Pll1Configuration, 2)

\* spread_spectrum_clocking_selection_raw: u3::new(match control_input {..})
\* on the bytes rd the reads returned
ssc_raw_value(control_input, rd) ==
    uN_new(3,
      CASE control_input = 7 -> get(rd[1], Pll1ConfigurationRegister0("ssc1_7"))
        [] control_input = 6 -> get(rd[1], Pll1ConfigurationRegister0("ssc1_6"))
        [] control_input = 5 ->
             LET hi == get(rd[1], Pll1ConfigurationRegister0("ssc1_5"))
                 lo == get(rd[2], Pll1ConfigurationRegister1("ssc1_5"))
             IN bit_or(shl(hi, 1, 8), lo)
        [] control_input = 4 -> get(rd[1], Pll1ConfigurationRegister1("ssc1_4"))
        [] control_input = 3 -> get(rd[1], Pll1ConfigurationRegister1("ssc1_3"))
        [] control_input = 2 ->
             LET hi == get(rd[1], Pll1ConfigurationRegister1("ssc1_2"))
                 lo == get(rd[2], Pll1ConfigurationRegister2("ssc1_2"))
             IN bit_or(shl(hi, 2, 8), lo)
        [] control_input = 1 -> get(rd[1], Pll1ConfigurationRegister2("ssc1_1"))
        [] control_input = 0 -> get(rd[1], Pll1ConfigurationRegister2("ssc1_0")))

\* set_spread_spectrum_clocking_selection_raw(control_input, value)
set_ssc_raw(control_input, value) ==
    CASE control_input = 7 ->
           modify(Pll1Configuration, 0, Pll1ConfigurationRegister0("ssc1_7"), value)
      [] control_input = 6 ->
           modify(Pll1Configuration, 0, Pll1ConfigurationRegister0("ssc1_6"), value)
      [] control_input = 5 ->
           LET hi == value \div 2
               lo == value % 2
           IN modify(Pll1Configuration, 0, Pll1ConfigurationRegister0("ssc1_5"), hi)
              \o modify(Pll1Configuration, 1, Pll1ConfigurationRegister1("ssc1_5"),
                        IF lo # 0 THEN 1 ELSE 0)
      [] control_input = 4 ->
           modify(Pll1Configuration, 1, Pll1ConfigurationRegister1("ssc1_4"), value)
      [] control_input = 3 ->
           modify(Pll1Configuration, 1, Pll1ConfigurationRegister1("ssc1_3"), value)
      [] control_input = 2 ->
           LET hi == value \div 4
               lo == value % 4
           IN modify(Pll1Configuration, 1, Pll1ConfigurationRegister1("ssc1_2"),
                     IF hi # 0 THEN 1 ELSE 0)
              \o modify(Pll1Configuration, 2, Pll1ConfigurationRegister2("ssc1_2"), lo)
      [] control_input = 1 ->
           modify(Pll1Configuration, 2, Pll1ConfigurationRegister2("ssc1_1"), value)
      [] control_input = 0 ->
           modify(Pll1Configuration, 2, Pll1ConfigurationRegister2("ssc1_0"), value)

\* faulty variant of set_y1_output_divider: register 0x03 first
set_y1_output_divider_descending(value) ==
    modify_byte_unchecked(GenericConfiguration + 3, "field",
                          GenericConfigurationRegister3("pdiv1_7_0"), as_u8(value % 256))
    \o modify_byte_unchecked(GenericConfiguration + 2, "field",
                             GenericConfigurationRegister2("pdiv1_9_8"),
                             as_u8(value \div 256))

\* y1_output_divider / set_y1_output_divider
y1_output_divider_reads == read(GenericConfiguration, 2) \o read(GenericConfiguration, 3)
y1_output_divider_value(rd) == uN_new(10, pdiv1_full_value(rd[2], rd[1]))
set_y1_output_divider(value) ==
    modify(GenericConfiguration, 2, GenericConfigurationRegister2("pdiv1_9_8"),
           as_u8(value \div 256))
    \o modify(GenericConfiguration, 3, GenericConfigurationRegister3("pdiv1_7_0"),
              as_u8(value % 256))

\* pll1_0_settings / pll1_1_settings and their setters; base is 0x8 or 0xC
pll_settings_reads(base) ==
    read_byte_unchecked(Pll1Configuration + base)
    \o read_byte_unchecked(Pll1Configuration + base + 1)
    \o read_byte_unchecked(Pll1Configuration + base + 2)
    \o read_byte_unchecked(Pll1Configuration + base + 3)
\* faulty variant of set_pll_settings: each byte goes through a
\* read-modify-write cycle
set_pll_settings_modify(base, value) ==
    LET bytes == to_be_bytes(value)
    IN modify_byte_unchecked(Pll1Configuration + base, "imm", NoField, bytes[1])
       \o modify_byte_unchecked(Pll1Configuration + base + 1, "imm", NoField, bytes[2])
       \o modify_byte_unchecked(Pll1Configuration + base + 2, "imm", NoField, bytes[3])
       \o modify_byte_unchecked(Pll1Configuration + base + 3, "imm", NoField, bytes[4])

set_pll_settings(base, value) ==
    LET bytes == to_be_bytes(value)
    IN write_byte_unchecked(Pll1Configuration + base, bytes[1])
       \o write_byte_unchecked(Pll1Configuration + base + 1, bytes[2])
       \o write_byte_unchecked(Pll1Configuration + base + 2, bytes[3])
       \o write_byte_unchecked(Pll1Configuration + base + 3, bytes[4])

\* faulty variant of as_bool: the two variants of a flag are exchanged
as_bool_exchanged(x) == IF x # 0 THEN 0 ELSE 1

\* bool -> 0/1, as `flag as u8` and `value as u8 != 0` do
as_bool(x) == IF x # 0 THEN 1 ELSE 0

\* the selection setters' modify cycle (registers 0x04, 0x13, 0x15)
modify_selection(bank, offset, control_input, value) ==
    modify_byte_unchecked(bank + offset, "selection",
                          <<control_input, control_input>>, value)

(***************************************************************************)
(* A call is [op, ci, v, w]: the operation's name, its control_input (or   *)
(* raw offset) argument, its integer value argument and its PllSettings    *)
(* argument; an unused argument is 0.                                      *)
(* Script(c) is the transaction script of the call, Ret(c, rd) the value   *)
(* it returns once every transaction succeeded and the reads returned rd.  *)
(***************************************************************************)
Script(c) ==
    CASE c.op = "read_byte_unchecked" -> read_byte_unchecked(c.ci)
      [] c.op = "write_byte_unchecked" -> write_byte_unchecked(c.ci, c.v)
      [] c.op = "modify_byte_unchecked" ->
           modify_byte_unchecked(c.ci, IF c.v = 0 THEN "id" ELSE "not", NoField, 0)
      [] c.op = "device_identification" -> read(GenericConfiguration, 0)
      [] c.op = "revision_number" -> read(GenericConfiguration, 0)
      [] c.op = "vendor_identification" -> read(GenericConfiguration, 0)
      [] c.op = "eeprom_programming_status" -> read(GenericConfiguration, 1)
      [] c.op = "eeprom_permanently_locked" -> read(GenericConfiguration, 1)
      [] c.op = "set_eeprom_permanently_locked" ->
           modify(GenericConfiguration, 1, GenericConfigurationRegister1("eelock"), c.v)
      [] c.op = "power_down" -> read(GenericConfiguration, 1)
      [] c.op = "set_power_down" ->
           modify(GenericConfiguration, 1, GenericConfigurationRegister1("pwdn"), c.v)
      [] c.op = "input_clock" -> read(GenericConfiguration, 1)
      [] c.op = "set_input_clock" ->
           modify(GenericConfiguration, 1, GenericConfigurationRegister1("_inclk"), c.v)
      [] c.op = "target_address" -> read(GenericConfiguration, 1)
      [] c.op = "set_target_address" ->
           modify(GenericConfiguration, 1, GenericConfigurationRegister1("target_adr"), c.v)
      [] c.op = "y1_clock_source" -> read(GenericConfiguration, 2)
      [] c.op = "set_y1_clock_source" ->
           modify(GenericConfiguration, 2, GenericConfigurationRegister2("_m1"),
                  as_bool(c.v))
      [] c.op = "serial_pins_operating_mode" -> read(GenericConfiguration, 2)
      [] c.op = "set_serial_pins_operating_mode" ->
           modify(GenericConfiguration, 2, GenericConfigurationRegister2("_spicon"),
                  as_bool(c.v))
      [] c.op = "y1_state_1" -> read(GenericConfiguration, 2)
      [] c.op = "set_y1_state_1" ->
           modify(GenericConfiguration, 2, GenericConfigurationRegister2("y1_st1"), c.v)
      [] c.op = "y1_state_0" -> read(GenericConfiguration, 2)
      [] c.op = "set_y1_state_0" ->
           modify(GenericConfiguration, 2, GenericConfigurationRegister2("y1_st0"), c.v)
      [] c.op = "y1_output_divider" -> y1_output_divider_reads
      [] c.op = "set_y1_output_divider" -> set_y1_output_divider(c.v)
      [] c.op = "y1_state_selection" -> read(GenericConfiguration, 4)
      [] c.op = "set_y1_state_selection" ->
           modify_selection(GenericConfiguration, 4, c.ci, c.v)
      [] c.op = "crystal_load_capacitance_pf" -> read(GenericConfiguration, 5)
      [] c.op = "set_crystal_load_capacitor" ->
           modify_byte_unchecked(GenericConfiguration + 5, "xcsel", NoField, c.v)
      [] c.op = "block_byte_count" -> read(GenericConfiguration, 6)
      [] c.op = "set_block_byte_count" ->
           modify(GenericConfiguration, 6, GenericConfigurationRegister6("bcount"), c.v)
      [] c.op = "spread_spectrum_clocking_selection_raw" -> ssc_raw_reads(c.ci)
      [] c.op = "spread_spectrum_clocking_selection_as_down" -> ssc_raw_reads(c.ci)
      [] c.op = "spread_spectrum_clocking_selection_as_center" -> ssc_raw_reads(c.ci)
      [] c.op = "set_spread_spectrum_clocking_selection_raw" -> set_ssc_raw(c.ci, c.v)
      [] c.op = "set_spread_spectrum_clocking_selection_as_down" ->
           set_ssc_raw(c.ci, c.v)
      [] c.op = "set_spread_spectrum_clocking_selection_as_center" ->
           set_ssc_raw(c.ci, c.v)
      [] c.op = "pll1_frequency_selection" -> read(Pll1Configuration, 3)
      [] c.op = "set_pll1_frequency_selection" ->
           modify_selection(Pll1Configuration, 3, c.ci, c.v)
      [] c.op = "pll1_multiplexer" -> read(Pll1Configuration, 4)
      [] c.op = "set_pll1_multiplexer" ->
           modify(Pll1Configuration, 4, Pll1ConfigurationRegister4("_mux1"), as_bool(c.v))
      [] c.op = "y2_multiplexer" -> read(Pll1Configuration, 4)
      [] c.op = "set_y2_multiplexer" ->
           modify(Pll1Configuration, 4, Pll1ConfigurationRegister4("_m2"), as_bool(c.v))
      [] c.op = "y3_multiplexer" -> read(Pll1Configuration, 4)
      [] c.op = "set_y3_multiplexer" ->
           modify(Pll1Configuration, 4, Pll1ConfigurationRegister4("_m3"), c.v)
      [] c.op = "y2y3_state1_definition" -> read(Pll1Configuration, 4)
      [] c.op = "set_y2y3_state1_definition" ->
           modify(Pll1Configuration, 4, Pll1ConfigurationRegister4("y2y3_st1"), c.v)
      [] c.op = "y2y3_state0_definition" -> read(Pll1Configuration, 4)
      [] c.op = "set_y2y3_state0_definition" ->
           modify(Pll1Configuration, 4, Pll1ConfigurationRegister4("y2y3_st0"), c.v)
      [] c.op = "y2y3_state_selection" -> read(Pll1Configuration, 5)
      [] c.op = "set_y2y3_state_selection" ->
           modify_selection(Pll1Configuration, 5, c.ci, c.v)
      [] c.op = "pll1_ssc_down_center_selection" -> read(Pll1Configuration, 6)
      [] c.op = "set_pll1_ssc_down_center_selection" ->
           modify(Pll1Configuration, 6, Pll1ConfigurationRegister6("_ssc1dc"),
                  as_bool(c.v))
      [] c.op = "y2_output_divider" -> read(Pll1Configuration, 6)
      [] c.op = "set_y2_output_divider" ->
           modify(Pll1Configuration, 6, Pll1ConfigurationRegister6("pdiv2"), c.v)
      [] c.op = "y3_output_divider" -> read(Pll1Configuration, 7)
      [] c.op = "set_y3_output_divider" ->
           modify(Pll1Configuration, 7, Pll1ConfigurationRegister7("pdiv3"), c.v)
      [] c.op = "pll1_0_settings" -> pll_settings_reads(8)
      [] c.op = "set_pll1_0_settings" -> set_pll_settings(8, c.w)
      [] c.op = "pll1_1_settings" -> pll_settings_reads(12)
      [] c.op = "set_pll1_1_settings" -> set_pll_settings(12, c.w)

\* the closure result of each getter (the setters return Ok(()))
Ret(c, rd) ==
    CASE c.op = "read_byte_unchecked" -> Ok(rd[1])
      [] c.op = "device_identification" ->
           Ok(as_bool(get(rd[1], GenericConfigurationRegister0("e_el"))))
      [] c.op = "revision_number" ->
           uN_new(3, get(rd[1], GenericConfigurationRegister0("rid")))
      [] c.op = "vendor_identification" ->
           uN_new(4, get(rd[1], GenericConfigurationRegister0("vid")))
      [] c.op = "eeprom_programming_status" ->
           Ok(as_bool(get(rd[1], GenericConfigurationRegister1("_eepip"))))
      [] c.op = "eeprom_permanently_locked" ->
           Ok(get(rd[1], GenericConfigurationRegister1("eelock")))
      [] c.op = "power_down" -> Ok(get(rd[1], GenericConfigurationRegister1("pwdn")))
      [] c.op = "input_clock" -> Ok(input_clock_selection(rd[1]))
      [] c.op = "target_address" ->
           uN_new(2, get(rd[1], GenericConfigurationRegister1("target_adr")))
      [] c.op = "y1_clock_source" ->
           Ok(as_bool(get(rd[1], GenericConfigurationRegister2("_m1"))))
      [] c.op = "serial_pins_operating_mode" ->
           Ok(as_bool(get(rd[1], GenericConfigurationRegister2("_spicon"))))
      [] c.op = "y1_state_1" ->
           uN_new(2, get(rd[1], GenericConfigurationRegister2("y1_st1")))
      [] c.op = "y1_state_0" ->
           uN_new(2, get(rd[1], GenericConfigurationRegister2("y1_st0")))
      [] c.op = "y1_output_divider" -> y1_output_divider_value(rd)
      [] c.op = "y1_state_selection" -> Ok(state_selection(rd[1], c.ci))
      [] c.op = "crystal_load_capacitance_pf" -> Ok(crystal_load_capacitance_pf(rd[1]))
      [] c.op = "block_byte_count" ->
           uN_new(7, get(rd[1], GenericConfigurationRegister6("bcount")))
      [] c.op = "spread_spectrum_clocking_selection_raw" -> ssc_raw_value(c.ci, rd)
      [] c.op = "spread_spectrum_clocking_selection_as_down" -> ssc_raw_value(c.ci, rd)
      [] c.op = "spread_spectrum_clocking_selection_as_center" -> ssc_raw_value(c.ci, rd)
      [] c.op = "pll1_frequency_selection" -> Ok(state_selection(rd[1], c.ci))
      [] c.op = "pll1_multiplexer" ->
           Ok(as_bool(get(rd[1], Pll1ConfigurationRegister4("_mux1"))))
      [] c.op = "y2_multiplexer" ->
           Ok(as_bool(get(rd[1], Pll1ConfigurationRegister4("_m2"))))
      [] c.op = "y3_multiplexer" -> Ok(get(rd[1], Pll1ConfigurationRegister4("_m3")))
      [] c.op = "y2y3_state1_definition" ->
           uN_new(2, get(rd[1], Pll1ConfigurationRegister4("y2y3_st1")))
      [] c.op = "y2y3_state0_definition" ->
           uN_new(2, get(rd[1], Pll1ConfigurationRegister4("y2y3_st0")))
      [] c.op = "y2y3_state_selection" -> Ok(state_selection(rd[1], c.ci))
      [] c.op = "pll1_ssc_down_center_selection" ->
           Ok(as_bool(get(rd[1], Pll1ConfigurationRegister6("_ssc1dc"))))
      [] c.op = "y2_output_divider" ->
           uN_new(7, get(rd[1], Pll1ConfigurationRegister6("pdiv2")))
      [] c.op = "y3_output_divider" ->
           uN_new(7, get(rd[1], Pll1ConfigurationRegister7("pdiv3")))
      [] c.op = "pll1_0_settings" -> OkWord(from_be_bytes(rd))
      [] c.op = "pll1_1_settings" -> OkWord(from_be_bytes(rd))
      [] OTHER -> Ok(0)

(***************************************************************************)
(* The calls a caller may make, with their arguments drawn from the sets   *)
(* below.                                                                  *)
(***************************************************************************)
NumInitBytes == 4

U3 == 0 .. 7
\* the bytes a register may hold initially: the first NumInitBytes of these
BytePatterns == <<0, 255, 165, 90, 60, 195>>
InitBytes == { BytePatterns[k] : k \in 1 .. NumInitBytes }
BusErrors == {1, 2}
DividerValues == {0, 1, 2, 255, 256, 341, 683, 1023}
U7Values == {0, 1, 42, 85, 127}
PfValues == (0 .. 51) \cup {64, 127, 128, 200, 255}
SscAmounts == {2, 5}
PllWords ==
    { <<0, 0>>, <<65535, 65535>>, <<4660, 22136>>, <<32768, 1>>, <<43690, 21845>>,
      <<255, 65280>> }
RawOffsets == {5, 32, 133}
RawBytes == { 8 * x : x \in 0 .. 31 } \cup {165, 255}
DeviceOffsets == (0 .. 6) \cup (16 .. 32)

C(op, ci, v) == [op |-> op, ci |-> ci, v |-> v, w |-> NoWord]
CW(op, w) == [op |-> op, ci |-> 0, v |-> 0, w |-> w]

GetterOps ==
    { "device_identification", "revision_number", "vendor_identification",
      "eeprom_programming_status", "eeprom_permanently_locked", "power_down",
      "input_clock", "target_address", "y1_clock_source",
      "serial_pins_operating_mode", "y1_state_1", "y1_state_0",
      "y1_output_divider", "crystal_load_capacitance_pf", "block_byte_count",
      "pll1_multiplexer", "y2_multiplexer", "y3_multiplexer",
      "y2y3_state1_definition", "y2y3_state0_definition",
      "pll1_ssc_down_center_selection", "y2_output_divider",
      "y3_output_divider", "pll1_0_settings", "pll1_1_settings" }

IndexedGetterOps ==
    { "y1_state_selection", "spread_spectrum_clocking_selection_raw",
      "spread_spectrum_clocking_selection_as_down",
      "spread_spectrum_clocking_selection_as_center",
      "pll1_frequency_selection", "y2y3_state_selection" }

GetterCalls ==
    { C(op, 0, 0) : op \in GetterOps }
    \cup { C(op, ci, 0) : op \in IndexedGetterOps, ci \in U3 }

\* the value set of each setter's argument type
SetterValues(op) ==
    CASE op \in { "set_eeprom_permanently_locked", "set_power_down",
                  "set_y1_clock_source", "set_serial_pins_operating_mode",
                  "set_pll1_multiplexer", "set_y2_multiplexer",
                  "set_pll1_ssc_down_center_selection" } -> {0, 1}
      [] op = "set_input_clock" -> {Xtal, Vcxo, LvCmos}
      [] op \in { "set_target_address", "set_y1_state_1", "set_y1_state_0",
                  "set_y3_multiplexer", "set_y2y3_state1_definition",
                  "set_y2y3_state0_definition" } -> 0 .. 3
      [] op = "set_y1_output_divider" -> DividerValues
      [] op = "set_crystal_load_capacitor" -> PfValues
      [] op \in { "set_block_byte_count", "set_y2_output_divider",
                  "set_y3_output_divider" } -> U7Values

SetterOps ==
    { "set_eeprom_permanently_locked", "set_power_down", "set_input_clock",
      "set_target_address", "set_y1_clock_source",
      "set_serial_pins_operating_mode", "set_y1_state_1", "set_y1_state_0",
      "set_y1_output_divider", "set_crystal_load_capacitor",
      "set_block_byte_count", "set_pll1_multiplexer", "set_y2_multiplexer",
      "set_y3_multiplexer", "set_y2y3_state1_definition",
      "set_y2y3_state0_definition", "set_pll1_ssc_down_center_selection",
      "set_y2_output_divider", "set_y3_output_divider" }

PllSetterOps == { "set_pll1_0_settings", "set_pll1_1_settings" }

SscSetterOps ==
    { "set_spread_spectrum_clocking_selection_raw",
      "set_spread_spectrum_clocking_selection_as_down",
      "set_spread_spectrum_clocking_selection_as_center" }

SelectionSetterOps ==
    { "set_y1_state_selection", "set_pll1_frequency_selection",
      "set_y2y3_state_selection" }

SetterCalls ==
    UNION { { C(op, 0, v) : v \in SetterValues(op) } : op \in SetterOps }
    \cup { C("set_spread_spectrum_clocking_selection_raw", ci, v) :
               ci \in U3, v \in U3 }
    \cup { C(op, ci, v) : op \in SscSetterOps, ci \in U3, v \in SscAmounts }
    \cup { C(op, ci, v) : op \in SelectionSetterOps, ci \in U3, v \in {0, 1} }
    \cup { CW(op, w) : op \in PllSetterOps, w \in PllWords }

RawCalls ==
    { C("read_byte_unchecked", o, 0) : o \in RawOffsets }
    \cup { C("write_byte_unchecked", o, b) : o \in RawOffsets, b \in RawBytes }
    \cup { C("modify_byte_unchecked", o, k) : o \in RawOffsets, k \in {0, 1} }

Calls == GetterCalls \cup SetterCalls \cup RawCalls

(***************************************************************************)
(* The device and the running operation.                                   *)
(***************************************************************************)
VARIABLES
    regs,    \* the device's register file: offset -> byte
    pc,      \* "idle", "busy" (between two awaits) or "done" (returned)
    call,    \* the operation in progress or just returned
    ip,      \* transactions of the script completed so far
    rd,      \* bytes the reads of this operation returned, in order
    result,  \* what the operation returned
    log,     \* the bus transactions of this operation, in order
    pre,     \* the register file when the operation was called
    hist,    \* the operations that returned before this one
    settings,  \* a PllSettings value the caller holds
    edit,      \* the field setter last applied to settings
    command,   \* a CommandCode value
    built,     \* the arguments command was built from
    other      \* what another master of the bus wrote during the operation

values == << settings, edit, command, built, other >>
vars == << regs, pc, call, ip, rd, result, log, pre, hist, values >>

\* the register a command byte addresses (Table 7-8: offset in bits 6..0)
DeviceOffset(cmd) == bit_range(cmd, 6, 0)

NoCall == C("none", 0, 0)
NoResult == [tag |-> "None", val |-> 0, w |-> NoWord]
NoEdit == [field |-> "none", value |-> 0, before |-> NoWord]
NoBuilt == [op_code |-> OpCodeBlock, offset |-> 0]
NoOther == [call |-> NoCall, before |-> 0]

\* the facade before its first call
Idle ==
    /\ pc = "idle"
    /\ call = NoCall
    /\ ip = 0
    /\ rd = << >>
    /\ result = NoResult
    /\ log = << >>
    /\ pre = regs
    /\ hist = << >>

Init ==
    /\ \E a \in InitBytes, b \in InitBytes :
          regs = [o \in DeviceOffsets |-> IF o % 2 = 0 THEN a ELSE b]
    /\ Idle
    /\ settings = NoWord
    /\ edit = NoEdit
    /\ command = 0
    /\ built = NoBuilt
    /\ other = NoOther

\* faulty variant of Begin: the bytes read by the previous operation are
\* kept, as a shadow of the registers would be
Begin_shadow(c, rf) ==
    /\ regs' = rf
    /\ call' = c
    /\ ip' = 0
    /\ rd' = rd
    /\ log' = << >>
    /\ pre' = rf
    /\ pc' = "busy"
    /\ result' = NoResult
    /\ UNCHANGED values

\* entry of an operation, the device holding rf: nothing is sent before the
\* first await
Begin(c, rf) ==
    /\ regs' = rf
    /\ call' = c
    /\ ip' = 0
    /\ rd' = << >>
    /\ log' = << >>
    /\ pre' = rf
    /\ pc' = "busy"
    /\ result' = NoResult
    /\ UNCHANGED values

Call(c) ==
    /\ pc = "idle"
    /\ Begin(c, regs)
    /\ UNCHANGED hist

\* initiate_eeprom_write: the body is todo!(), which panics when the future
\* is polled; no transaction is issued
initiate_eeprom_write ==
    /\ pc = "idle"
    /\ call' = C("initiate_eeprom_write", 0, 0)
    /\ pc' = "done"
    /\ result' = Panic
    /\ log' = << >>
    /\ UNCHANGED << regs, ip, rd, pre, hist, values >>

\* the register (device offset) a script step addresses
StepOffset(st) == DeviceOffset(CommandCode_new(OpCodeByte, st.off))

\* the registers (device offsets) the transactions of a script address
Touched(script) ==
    { DeviceOffset(CommandCode_new(OpCodeByte, script[k].off)) : k \in 1 .. Len(script) }

\* the getters a caller reads back with (the *_as_down / *_as_center
\* wrappers run the same transactions as the raw getter)
ReadBackCalls ==
    { g \in GetterCalls :
        g.op \notin { "spread_spectrum_clocking_selection_as_down",
                      "spread_spectrum_clocking_selection_as_center" } }

\* the setters a caller follows an operation on register 0x01 with
SecondSetterCalls ==
    { C("set_power_down", 0, v) : v \in SetterValues("set_power_down") }
    \cup { C("set_target_address", 0, v) : v \in SetterValues("set_target_address") }

\* a second operation may follow one that returned Ok, on a register that
\* one addressed; the device holds rf by then
Follows(g, rf) ==
    /\ pc = "done"
    /\ result.tag = "Ok"
    /\ hist = << >>
    /\ Touched(Script(g)) \cap Touched(Script(call)) # {}
    /\ hist' = Append(hist, [call |-> call, result |-> result, pre |-> pre])
    /\ Begin(g, rf)

\* after an operation returned Ok the caller reads back a field of a
\* register that operation addressed
ReadBack(g) == Follows(g, regs)

\* the same caller calls a setter of register 0x01 next
SecondSetter(c) == Follows(c, regs)

\* the accessors of register 0x01 a caller may call second
Register1Calls ==
    { C(op, 0, 0) : op \in { "eeprom_programming_status", "eeprom_permanently_locked",
                             "power_down", "input_clock", "target_address" } }
    \cup SecondSetterCalls

\* EEPIP (bit 6 of register 0x01) is driven by the device: between an
\* operation on register 0x01 and the next one the device changes it
StatusChange(g) ==
    LET eepip == GenericConfigurationRegister1("_eepip")
    IN /\ pc = "done"
       /\ 1 \in Touched(Script(g))
       /\ Follows(g, [regs EXCEPT ![1] = set(regs[1], eepip, 1 - get(regs[1], eepip))])

\* faulty variant of Transaction: a read asks for two bytes, as a block read
Transaction_block_read(rw, cmd, value, val, e) ==
    [rw |-> rw, addr |-> ADDRESS, cmd |-> cmd, val |-> val, err |-> e,
     sent |-> IF rw = "W" THEN <<cmd, value>> ELSE <<cmd>>,
     buf |-> IF rw = "R" THEN 2 ELSE 0]

\* what the facade hands to the bus for one transaction:
\* i2c.write(ADDRESS, &[cmd, value]) or i2c.write_read(ADDRESS, &[cmd], &mut buf)
\* with buf: [u8; 1]; val is the byte transferred when it succeeds
Transaction(rw, cmd, value, val, e) ==
    [rw |-> rw, addr |-> ADDRESS, cmd |-> cmd, val |-> val, err |-> e,
     sent |-> IF rw = "W" THEN <<cmd, value>> ELSE <<cmd>>,
     buf |-> IF rw = "R" THEN 1 ELSE 0]

\* faulty variant of LastRead: the closure works on the byte the device holds
\* when the write goes out
LastRead_device ==
    regs[DeviceOffset(CommandCode_new(OpCodeByte, Script(call)[ip + 1].off))]

\* the byte the closure of the running modify cycle works on
LastRead == IF rd = << >> THEN 0 ELSE rd[Len(rd)]

\* one transaction completes: i2c.write_read(ADDRESS, [cmd], buf) for a read,
\* i2c.write(ADDRESS, [cmd, value]) for a write
BusOk ==
    /\ pc = "busy"
    /\ LET script == Script(call)
           st == script[ip + 1]
           cmd == CommandCode_new(OpCodeByte, st.off)
           dev == DeviceOffset(cmd)
           value == IF st.rw = "R" THEN regs[dev] ELSE Closure(st, LastRead)
           rd1 == IF st.rw = "R" THEN Append(rd, value) ELSE rd
       IN /\ regs' = IF st.rw = "W" THEN [regs EXCEPT ![dev] = value] ELSE regs
          /\ rd' = rd1
          /\ log' = Append(log, Transaction(st.rw, cmd, value, value, 0))
          /\ ip' = ip + 1
          /\ IF ip + 1 = Len(script)
             THEN pc' = "done" /\ result' = Ret(call, rd1)
             ELSE pc' = "busy" /\ result' = result
    /\ UNCHANGED << call, pre, hist, values >>

\* the log after the transaction at hand failed with transport error e
FailedLog(e) ==
    LET st == Script(call)[ip + 1]
        cmd == CommandCode_new(OpCodeByte, st.off)
        value == IF st.rw = "R" THEN 0 ELSE Closure(st, LastRead)
    IN Append(log, Transaction(st.rw, cmd, value, 0, e))

\* faulty variant of BusErr: the failed transaction is tried again
BusErr_retry(e) ==
    /\ pc = "busy"
    /\ Len(log) < 8
    /\ log' = FailedLog(e)
    /\ UNCHANGED << regs, pc, result, call, ip, rd, pre, hist, values >>

\* faulty variant of BusErr: the registers are put back as they were when
\* the operation was called
BusErr_rollback(e) ==
    /\ pc = "busy"
    /\ log' = FailedLog(e)
    /\ pc' = "done"
    /\ result' = Err(e)
    /\ regs' = pre
    /\ UNCHANGED << call, ip, rd, pre, hist, values >>

\* one transaction fails with transport error e: `?` returns Err(e) at once
BusErr(e) ==
    /\ pc = "busy"
    /\ log' = FailedLog(e)
    /\ pc' = "done"
    /\ result' = Err(e)
    /\ UNCHANGED << regs, call, ip, rd, pre, hist, values >>

Next ==
    \/ \E c \in Calls : Call(c)
    \/ initiate_eeprom_write
    \/ \E g \in ReadBackCalls : ReadBack(g)
    \/ \E c \in SecondSetterCalls : SecondSetter(c)
    \/ \E g \in Register1Calls : StatusChange(g)
    \/ BusOk
    \/ \E e \in BusErrors : BusErr(e)

Spec == Init /\ [][Next]_vars

(***************************************************************************)
(* A PllSettings value in the caller's hands: the caller applies the       *)
(* generated field setters to it, one at a time.                           *)
(***************************************************************************)
\* arguments of each field setter: inside the field's width, and one of the
\* setter's argument type (u16 / u8) that is wider than the field
PllSettingsValues(f) ==
    CASE f = "pllx_yn" -> {0, 2730, 4095, 4097}
      [] f = "pllx_yr" -> {0, 341, 511, 513}
      [] f = "pllx_yq" -> {0, 42, 63, 65}
      [] f = "pllx_yp" -> {0, 5, 7, 9}
      [] f = "_vco1x_y_range" -> {0, 2, 3, 5}

\* the width of a field in bits
PllSettingsWidth(f) == PllSettings(f)[1] - PllSettings(f)[2] + 1

\* the facade at rest, the device holding zeros
AtRest ==
    /\ regs = [o \in DeviceOffsets |-> 0]
    /\ Idle

InitPllSettings ==
    /\ AtRest
    /\ settings \in PllWords
    /\ edit = NoEdit
    /\ command = 0
    /\ built = NoBuilt
    /\ other = NoOther

\* settings.set_<f>(value)
PllSettings_edit(f, value) ==
    /\ settings' = PllSettings_set(settings, f, value)
    /\ edit' = [field |-> f, value |-> value, before |-> settings]
    /\ UNCHANGED << regs, pc, call, ip, rd, result, log, pre, hist, command, built, other >>

\* PllSettings::set_vco_range_selection(range): set_vcox_y_range(range as u8)
set_vco_range_selection(range) ==
    /\ settings' = PllSettings_set(settings, "_vco1x_y_range", range)
    /\ edit' = [field |-> "_vco1x_y_range", value |-> range, before |-> settings]
    /\ UNCHANGED << regs, pc, call, ip, rd, result, log, pre, hist, command, built, other >>

\* PllSettings::vco_range_selection(): u2::new(self._vco1x_y_range()).into()
vco_range_selection(w) == uN_new(2, PllSettings_get(w, "_vco1x_y_range"))

NextPllSettings ==
    \/ \E f \in PllSettingsFields : \E value \in PllSettingsValues(f) :
          PllSettings_edit(f, value)
    \/ \E range \in 0 .. 3 : set_vco_range_selection(range)

SpecPllSettings == InitPllSettings /\ [][NextPllSettings]_vars

(***************************************************************************)
(* A CommandCode value: CommandCode::new on every mode and offset.         *)
(***************************************************************************)
InitCommandCode ==
    /\ AtRest
    /\ settings = NoWord
    /\ edit = NoEdit
    /\ command = 0
    /\ built = NoBuilt
    /\ other = NoOther

\* command = CommandCode::new(op_code, offset).into()
CommandCode_build(op_code, offset) ==
    /\ command' = CommandCode_new(op_code, offset)
    /\ built' = [op_code |-> op_code, offset |-> offset]
    /\ UNCHANGED << regs, pc, call, ip, rd, result, log, pre, hist, settings, edit, other >>

NextCommandCode ==
    \E op_code \in {OpCodeBlock, OpCodeByte}, offset \in 0 .. 255 :
        CommandCode_build(op_code, offset)

SpecCommandCode == InitCommandCode /\ [][NextCommandCode]_vars

(***************************************************************************)
(* The device on a bus it shares with another master.  modify_byte_        *)
(* unchecked awaits its read and then its write: the calling task may be   *)
(* suspended between the two, and the bus is free for the other master     *)
(* then.  The other master runs a setter of its own facade on the same     *)
(* register; when the caller serializes, that setter runs after the        *)
(* operation returned.                                                     *)
(***************************************************************************)
\* the single-field setters of registers 0x01, 0x04 and 0x14
SharedBusCalls ==
    { C("set_eeprom_permanently_locked", 0, v) : v \in {0, 1} }
    \cup { C("set_power_down", 0, v) : v \in {0, 1} }
    \cup { C("set_input_clock", 0, v) : v \in {Xtal, Vcxo, LvCmos} }
    \cup { C("set_target_address", 0, v) : v \in 0 .. 3 }
    \cup { C("set_y1_state_selection", ci, v) : ci \in U3, v \in {0, 1} }
    \cup { C("set_pll1_multiplexer", 0, v) : v \in {0, 1} }
    \cup { C("set_y2_multiplexer", 0, v) : v \in {0, 1} }
    \cup { C("set_y3_multiplexer", 0, v) : v \in 0 .. 3 }
    \cup { C("set_y2y3_state1_definition", 0, v) : v \in 0 .. 3 }
    \cup { C("set_y2y3_state0_definition", 0, v) : v \in 0 .. 3 }

\* serialized use: the next setter is called after the operation returned
Serialized(c) ==
    /\ other = NoOther
    /\ Follows(c, regs)

\* the other master's setter c runs its whole modify cycle (read, closure,
\* write) on the same register between the read and the write-back of the
\* running operation
OtherWriter(c) ==
    /\ pc = "busy"
    /\ ip = 1
    /\ hist = << >>
    /\ other = NoOther
    /\ LET st == Script(c)[2]
           dev == StepOffset(st)
       IN /\ Script(call)[2].rw = "W"
          /\ StepOffset(Script(call)[2]) = dev
          /\ regs' = [regs EXCEPT ![dev] = Closure(st, regs[dev])]
          /\ other' = [call |-> c, before |-> regs[dev]]
    /\ UNCHANGED << pc, call, ip, rd, result, log, pre, hist, settings, edit,
                    command, built >>

NextSharedBus ==
    \/ \E c \in SharedBusCalls : Call(c)
    \/ \E c \in SharedBusCalls : Serialized(c)
    \/ \E c \in SharedBusCalls : OtherWriter(c)
    \/ BusOk
    \/ \E e \in BusErrors : BusErr(e)

SpecSharedBus == Init /\ [][NextSharedBus]_vars

(***************************************************************************)
(* Vocabulary of the properties.                                           *)
(***************************************************************************)
Returned == pc = "done"
Succeeded == pc = "done" /\ result.tag = "Ok"

\* the register file byte a script step addresses
StepRegister(st) == DeviceOffset(CommandCode_new(OpCodeByte, st.off))

\* what getter g returns when every read succeeds on register file rf
Decoded(g, rf) ==
    LET script == Script(g)
    IN Ret(g, [k \in 1 .. Len(script) |-> rf[StepRegister(script[k])]])

SscGet(j) == C("spread_spectrum_clocking_selection_raw", j, 0)
IsSscSet(c) == c.op = "set_spread_spectrum_clocking_selection_raw"

\* the operation before the current one, when the current one is a read-back
Previous == hist[Len(hist)]
ReadBackOf(setter, getter) ==
    /\ hist # << >>
    /\ Previous.call.op = setter
    /\ call.op = getter
    /\ pc = "done"
    /\ result.tag # "Err"

(***************************************************************************)
(* C1: after a successful set_spread_spectrum_clocking_selection_raw(i, v)  *)
(* every selector j # i decodes to what it decoded to before the call.     *)
(* Stated as the claim has it; the code violates it (ssc1_1 is declared as  *)
(* bits 6..3 of register 0x12 and overlaps ssc1_2 in bit 6).               *)
(***************************************************************************)
C1_SiblingSelectorsUntouched ==
    (Succeeded /\ IsSscSet(call)) =>
        \A j \in U3 \ {call.ci} : Decoded(SscGet(j), regs) = Decoded(SscGet(j), pre)

(***************************************************************************)
(* C2: set_spread_spectrum_clocking_selection_raw(i, v) immediately        *)
(* followed by spread_spectrum_clocking_selection_raw(i) returns v, from    *)
(* every initial register content, when no transaction fails.              *)
(***************************************************************************)
C2_SscRoundTrip ==
    ( /\ ReadBackOf("set_spread_spectrum_clocking_selection_raw",
                    "spread_spectrum_clocking_selection_raw")
      /\ call.ci = Previous.call.ci )
    => result = Ok(Previous.call.v)

\* the split selector 5 read back as 0b101 over a register pair that held ones
C2_Witness ==
    /\ ReadBackOf("set_spread_spectrum_clocking_selection_raw",
                  "spread_spectrum_clocking_selection_raw")
    /\ call.ci = 5
    /\ Previous.call.ci = 5
    /\ Previous.call.v = 5
    /\ Previous.pre[16] = 255
    /\ result = Ok(5)

(***************************************************************************)
(* C3: a getter whose transactions succeed returns Ok with a value inside  *)
(* the range of its type, whatever the registers hold.  Stated as the      *)
(* claim has it; the code violates it (selector 1 reads four bits and      *)
(* u3::new panics on 8..15).                                               *)
(***************************************************************************)
GetterRange(op) ==
    CASE op \in { "revision_number", "spread_spectrum_clocking_selection_raw",
                  "spread_spectrum_clocking_selection_as_down",
                  "spread_spectrum_clocking_selection_as_center" } -> 0 .. 7
      [] op = "vendor_identification" -> 0 .. 15
      [] op \in { "block_byte_count", "y2_output_divider", "y3_output_divider" }
           -> 0 .. 127
      [] op = "y1_output_divider" -> 0 .. 1023
      [] op = "crystal_load_capacitance_pf" -> 0 .. 255
      [] op = "input_clock" -> {Xtal, Vcxo, LvCmos}
      [] op \in { "target_address", "y1_state_1", "y1_state_0", "y3_multiplexer",
                  "y2y3_state1_definition", "y2y3_state0_definition" } -> 0 .. 3
      [] OTHER -> {0, 1}

C3_DecodingNeverFails ==
    (Returned /\ call \in GetterCalls /\ result.tag # "Err") =>
        /\ result.tag = "Ok"
        /\ call.op \notin { "pll1_0_settings", "pll1_1_settings" }
              => result.val \in GetterRange(call.op)

(***************************************************************************)
(* The documented layout of the single-register fields: the register and   *)
(* the bits <<msb, lsb>> each setter is meant to replace (spec, section    *)
(* 4.3: every selector is 3 bits wide; the widths are those of the         *)
(* setters' argument types).                                               *)
(***************************************************************************)
TargetField(c) ==
    CASE c.op = "set_eeprom_permanently_locked" -> <<1, 5, 5>>
      [] c.op = "set_power_down" -> <<1, 4, 4>>
      [] c.op = "set_input_clock" -> <<1, 3, 2>>
      [] c.op = "set_target_address" -> <<1, 1, 0>>
      [] c.op = "set_y1_clock_source" -> <<2, 7, 7>>
      [] c.op = "set_serial_pins_operating_mode" -> <<2, 6, 6>>
      [] c.op = "set_y1_state_1" -> <<2, 5, 4>>
      [] c.op = "set_y1_state_0" -> <<2, 3, 2>>
      [] c.op = "set_y1_state_selection" -> <<4, c.ci, c.ci>>
      [] c.op = "set_crystal_load_capacitor" -> <<5, 7, 3>>
      [] c.op = "set_block_byte_count" -> <<6, 7, 1>>
      [] c.op \in SscSetterOps /\ c.ci = 7 -> <<16, 7, 5>>
      [] c.op \in SscSetterOps /\ c.ci = 6 -> <<16, 4, 2>>
      [] c.op \in SscSetterOps /\ c.ci = 4 -> <<17, 6, 4>>
      [] c.op \in SscSetterOps /\ c.ci = 3 -> <<17, 3, 1>>
      [] c.op \in SscSetterOps /\ c.ci = 1 -> <<18, 5, 3>>
      [] c.op \in SscSetterOps /\ c.ci = 0 -> <<18, 2, 0>>
      [] c.op = "set_pll1_frequency_selection" -> <<19, c.ci, c.ci>>
      [] c.op = "set_pll1_multiplexer" -> <<20, 7, 7>>
      [] c.op = "set_y2_multiplexer" -> <<20, 6, 6>>
      [] c.op = "set_y3_multiplexer" -> <<20, 5, 4>>
      [] c.op = "set_y2y3_state1_definition" -> <<20, 3, 2>>
      [] c.op = "set_y2y3_state0_definition" -> <<20, 1, 0>>
      [] c.op = "set_y2y3_state_selection" -> <<21, c.ci, c.ci>>
      [] c.op = "set_pll1_ssc_down_center_selection" -> <<22, 7, 7>>
      [] c.op = "set_y2_output_divider" -> <<22, 6, 0>>
      [] c.op = "set_y3_output_divider" -> <<23, 6, 0>>

\* the setters of a field spanning two registers, and the rest
IsTwoRegisterSetter(c) ==
    \/ c.op = "set_y1_output_divider"
    \/ c.op \in SscSetterOps /\ c.ci \in {2, 5}

SingleRegisterSetterCalls ==
    { c \in SetterCalls : ~IsTwoRegisterSetter(c) /\ c.op \notin PllSetterOps }

Bit(byte, k) == (byte \div (2 ^ k)) % 2

(***************************************************************************)
(* C4: a single-register setter does one read then one write at the same   *)
(* offset, the byte written is the byte read with only the bits of the     *)
(* targeted field replaced, and no other register changes.  Stated as the  *)
(* claim has it; the selector-1 setter violates it (it also replaces bit 6  *)
(* of register 0x12, the overlap of C1).                                   *)
(***************************************************************************)
C4_SingleReadModifyWrite ==
    (Succeeded /\ call \in SingleRegisterSetterCalls) =>
        LET t == TargetField(call)
        IN /\ Len(log) = 2
           /\ log[1].rw = "R" /\ log[2].rw = "W"
           /\ log[1].cmd = log[2].cmd
           /\ DeviceOffset(log[1].cmd) = t[1]
           /\ log[1].val = pre[t[1]]
           /\ \A k \in (0 .. 7) \ (t[3] .. t[2]) : Bit(log[2].val, k) = Bit(log[1].val, k)
           /\ regs = [pre EXCEPT ![t[1]] = log[2].val]

(***************************************************************************)
(* C5: a two-register setter issues read(lower), write(lower),             *)
(* read(higher), write(higher), in that order: at every moment its         *)
(* transactions are a prefix of that sequence, and all four when it        *)
(* returns Ok.                                                             *)
(***************************************************************************)
\* the lower register of each two-register field
LowerRegister(c) ==
    CASE c.op = "set_y1_output_divider" -> 2
      [] c.ci = 5 -> 16
      [] c.ci = 2 -> 17

TwoRegisterOrder(c) ==
    << <<"R", LowerRegister(c)>>, <<"W", LowerRegister(c)>>,
       <<"R", LowerRegister(c) + 1>>, <<"W", LowerRegister(c) + 1>> >>

C5_AscendingCycles ==
    IsTwoRegisterSetter(call) =>
        /\ Len(log) <= 4
        /\ \A k \in 1 .. Len(log) :
              <<log[k].rw, DeviceOffset(log[k].cmd)>> = TwoRegisterOrder(call)[k]
        /\ Succeeded => Len(log) = 4

C5_Witness ==
    /\ Succeeded
    /\ IsSscSet(call) /\ call.ci = 2
    /\ Len(log) = 4
    /\ log[2].val # log[1].val
    /\ log[4].val # log[3].val

(***************************************************************************)
(* C6: when the first register's cycle of a two-register setter succeeded  *)
(* and a transaction on the second register fails, the setter returns that  *)
(* error, the first register holds the new part, the second register its   *)
(* old content, and the first register is not written again.               *)
(***************************************************************************)
\* the part of the value that belongs in the lower register, and its bits
LowerPart(c) ==
    CASE c.op = "set_y1_output_divider" -> <<c.v \div 256, 1, 0>>
      [] c.ci = 5 -> <<c.v \div 2, 1, 0>>
      [] c.ci = 2 -> <<c.v \div 4, 0, 0>>

SecondCycleFailed ==
    /\ IsTwoRegisterSetter(call)
    /\ Returned
    /\ Len(log) \in {3, 4}
    /\ log[Len(log)].err # 0

C6_NoRollback ==
    SecondCycleFailed =>
        LET lo == LowerRegister(call)
            part == LowerPart(call)
        IN /\ result = Err(log[Len(log)].err)
           /\ (regs[lo] \div (2 ^ part[3])) % (2 ^ (part[2] - part[3] + 1)) = part[1]
           /\ regs[lo] = log[2].val
           /\ regs[lo + 1] = pre[lo + 1]
           /\ Cardinality({ k \in 1 .. Len(log) :
                              log[k].rw = "W" /\ DeviceOffset(log[k].cmd) = lo }) = 1
           /\ \A o \in DeviceOffsets \ {lo} : regs[o] = pre[o]

\* the divider's second write failed after the first register changed
C6_Witness ==
    /\ SecondCycleFailed
    /\ call.op = "set_y1_output_divider"
    /\ Len(log) = 4
    /\ regs[2] # pre[2]
    /\ regs[3] # call.v % 256

(***************************************************************************)
(* C7: the first failing transaction ends the operation with exactly its   *)
(* error: a failed transaction is always the last one of the operation,    *)
(* no transaction is issued twice in a row, and after a failed read the    *)
(* register of that cycle is not written (a single-cycle setter leaves     *)
(* every register as it was).                                              *)
(***************************************************************************)
C7_FailFast ==
    /\ \A k \in 1 .. Len(log) :
          log[k].err # 0 =>
             /\ k = Len(log)
             /\ pc = "done"
             /\ result = Err(log[k].err)
    /\ result.tag = "Err" => (log # << >> /\ log[Len(log)].err = result.val)
    /\ \A k \in 1 .. Len(log) - 1 :
          <<log[k].rw, log[k].cmd>> # <<log[k + 1].rw, log[k + 1].cmd>>
    /\ (log # << >> /\ log[Len(log)].err # 0 /\ log[Len(log)].rw = "R") =>
          LET r == DeviceOffset(log[Len(log)].cmd)
          IN /\ regs[r] = pre[r]
             /\ \A k \in 1 .. Len(log) : ~(log[k].rw = "W" /\ DeviceOffset(log[k].cmd) = r)
             /\ Len(log) = 1 => regs = pre

\* the read of a read-modify-write cycle failed
C7_Witness ==
    /\ Returned
    /\ call.op = "set_input_clock"
    /\ result = Err(2)
    /\ Len(log) = 1
    /\ log[1].rw = "R"
    /\ log[1].err = 2

(***************************************************************************)
(* C8: a getter issues only reads, at most two for a composite field and   *)
(* four for a PLL settings word (one otherwise), and the registers are     *)
(* the same during and after it as before it, whether it succeeds or not.  *)
(***************************************************************************)
MaxReads(op) ==
    CASE op \in { "pll1_0_settings", "pll1_1_settings" } -> 4
      [] op \in { "y1_output_divider", "spread_spectrum_clocking_selection_raw",
                  "spread_spectrum_clocking_selection_as_down",
                  "spread_spectrum_clocking_selection_as_center" } -> 2
      [] OTHER -> 1

C8_GettersOnlyRead ==
    call \in GetterCalls =>
        /\ \A k \in 1 .. Len(log) : log[k].rw = "R"
        /\ Len(log) <= MaxReads(call.op)
        /\ regs = pre

C8_Witness ==
    /\ Succeeded
    /\ call.op = "pll1_0_settings"
    /\ Len(log) = 4
    /\ \A k \in 1 .. 4 : log[k].rw = "R" /\ DeviceOffset(log[k].cmd) = 23 + k
    /\ regs = pre

(***************************************************************************)
(* C9: a successful set_y1_output_divider(v) leaves bits 1..0 of register   *)
(* 0x02 equal to v >> 8, register 0x03 equal to v & 0xFF and bits 7..2 of   *)
(* register 0x02 unchanged; y1_output_divider() then returns v.            *)
(***************************************************************************)
C9_DividerSplit ==
    /\ (Succeeded /\ call.op = "set_y1_output_divider") =>
          /\ regs[2] % 4 = call.v \div 256
          /\ regs[3] = call.v % 256
          /\ regs[2] \div 4 = pre[2] \div 4
    /\ ReadBackOf("set_y1_output_divider", "y1_output_divider") =>
          result = Ok(Previous.call.v)

\* 0x2AB: high 0b10, low 0xAB, read back as 0x2AB
C9_Witness ==
    /\ ReadBackOf("set_y1_output_divider", "y1_output_divider")
    /\ Previous.call.v = 683
    /\ Previous.pre[2] = 165
    /\ regs[2] = 166
    /\ regs[3] = 171
    /\ result = Ok(683)

(***************************************************************************)
(* C10: set_crystal_load_capacitor(pf) followed by                         *)
(* crystal_load_capacitance_pf() returns pf when pf <= 19 and 20 when      *)
(* pf >= 20; a raw XCSEL content of 20..31 reads as 20; the setter leaves  *)
(* bits 2..0 of register 0x05 unchanged.                                   *)
(***************************************************************************)
C10_CapacitanceClamp ==
    /\ ReadBackOf("set_crystal_load_capacitor", "crystal_load_capacitance_pf") =>
          result = Ok(IF Previous.call.v <= 19 THEN Previous.call.v ELSE 20)
    /\ ( /\ Returned
         /\ call.op = "crystal_load_capacitance_pf"
         /\ result.tag # "Err"
         /\ pre[5] \div 8 \in 20 .. 31 ) => result = Ok(20)
    /\ (Succeeded /\ call.op = "set_crystal_load_capacitor") =>
          regs[5] % 8 = pre[5] % 8

\* 33 would wrap to 1 in a 5-bit field; it saturates to 20
C10_Witness ==
    /\ ReadBackOf("set_crystal_load_capacitor", "crystal_load_capacitance_pf")
    /\ Previous.call.v = 33
    /\ Previous.pre[5] = 255
    /\ regs[5] = 167
    /\ result = Ok(20)

(***************************************************************************)
(* C11: for every enum field with a setter and every variant v, a          *)
(* successful set(v) followed by the matching get returns v, whatever the  *)
(* registers held; for a two-valued enum the register bit is 0 for the     *)
(* first variant and 1 for the second, in the setter and in the getter.    *)
(***************************************************************************)
\* setter, getter, register and bits <<msb, lsb>> of each enum field
EnumAccessors ==
    { <<"set_input_clock", "input_clock", 1, 3, 2>>,
      <<"set_y1_clock_source", "y1_clock_source", 2, 7, 7>>,
      <<"set_serial_pins_operating_mode", "serial_pins_operating_mode", 2, 6, 6>>,
      <<"set_y1_state_1", "y1_state_1", 2, 5, 4>>,
      <<"set_y1_state_0", "y1_state_0", 2, 3, 2>>,
      <<"set_pll1_multiplexer", "pll1_multiplexer", 20, 7, 7>>,
      <<"set_y2_multiplexer", "y2_multiplexer", 20, 6, 6>>,
      <<"set_y3_multiplexer", "y3_multiplexer", 20, 5, 4>>,
      <<"set_y2y3_state1_definition", "y2y3_state1_definition", 20, 3, 2>>,
      <<"set_y2y3_state0_definition", "y2y3_state0_definition", 20, 1, 0>>,
      <<"set_pll1_ssc_down_center_selection", "pll1_ssc_down_center_selection",
        22, 7, 7>> }

C11_EnumRoundTrip ==
    \A p \in EnumAccessors :
        /\ ReadBackOf(p[1], p[2]) => result = Ok(Previous.call.v)
        /\ (p[4] = p[5] /\ Succeeded /\ call.op = p[1]) =>
              (regs[p[3]] \div (2 ^ p[4])) % 2 = call.v
        /\ (p[4] = p[5] /\ Succeeded /\ call.op = p[2]) =>
              result = Ok((pre[p[3]] \div (2 ^ p[4])) % 2)

\* Pdiv3 (0b10) written over 0b11 in bits 5..4 of register 0x14 and read back
C11_Witness ==
    /\ ReadBackOf("set_y3_multiplexer", "y3_multiplexer")
    /\ Previous.call.v = 2
    /\ Previous.pre[20] = 255
    /\ regs[20] = 239
    /\ result = Ok(2)

(***************************************************************************)
(* C12: input_clock() decodes bits 3..2 of register 0x01 as 0b00 -> Xtal,   *)
(* 0b01 -> Vcxo, 0b10 -> LvCmos and the reserved 0b11 -> Xtal, never an     *)
(* error; set_input_clock never sends or leaves 0b11 in bits 3..2.         *)
(***************************************************************************)
C12_ReservedInputClock ==
    /\ (Returned /\ call.op = "input_clock" /\ result.tag # "Err") =>
          LET code == (pre[1] \div 4) % 4
          IN result = Ok(CASE code = 0 -> Xtal
                           [] code = 1 -> Vcxo
                           [] code = 2 -> LvCmos
                           [] code = 3 -> Xtal)
    /\ call.op = "set_input_clock" =>
          /\ \A k \in 1 .. Len(log) :
                log[k].rw = "W" => (log[k].sent[2] \div 4) % 4 # 3
          /\ Succeeded => (regs[1] \div 4) % 4 # 3

\* register 0x01 holds 0xFF: the reserved code reads as Xtal
C12_Witness ==
    /\ Succeeded
    /\ call.op = "input_clock"
    /\ pre[1] = 255
    /\ result = Ok(Xtal)

(***************************************************************************)
(* C13: a successful set_pll1_0_settings(w) stores the bytes of w, most     *)
(* significant first, at 0x18..0x1B and changes no other register;         *)
(* pll1_0_settings() then returns w; the word a getter returns, written    *)
(* back, puts the same four bytes in the same registers.  Likewise         *)
(* pll1_1_settings on 0x1C..0x1F.                                          *)
(***************************************************************************)
\* getter, setter and first register of each PLL settings word
PllWordAccessors ==
    { <<"set_pll1_0_settings", "pll1_0_settings", 24>>,
      <<"set_pll1_1_settings", "pll1_1_settings", 28>> }

C13_PllWordRoundTrip ==
    \A p \in PllWordAccessors :
        /\ (Succeeded /\ call.op = p[1]) =>
              /\ regs[p[3]] = call.w[1] \div 256
              /\ regs[p[3] + 1] = call.w[1] % 256
              /\ regs[p[3] + 2] = call.w[2] \div 256
              /\ regs[p[3] + 3] = call.w[2] % 256
              /\ \A o \in DeviceOffsets \ (p[3] .. p[3] + 3) : regs[o] = pre[o]
        /\ ReadBackOf(p[1], p[2]) => result = OkWord(Previous.call.w)
        /\ (Succeeded /\ call.op = p[2]) =>
              LET back == Script(CW(p[1], result.w))
              IN /\ Len(back) = 4
                 /\ \A k \in 1 .. 4 :
                       /\ back[k].rw = "W"
                       /\ back[k].off = p[3] + k - 1
                       /\ Closure(back[k], 0) = regs[p[3] + k - 1]

\* 0x12345678 stored as 0x12, 0x34, 0x56, 0x78 at 0x18..0x1B and read back
C13_Witness ==
    /\ ReadBackOf("set_pll1_0_settings", "pll1_0_settings")
    /\ Previous.call.w = <<4660, 22136>>
    /\ regs[24] = 18 /\ regs[25] = 52 /\ regs[26] = 86 /\ regs[27] = 120
    /\ regs[28] = pre[28]
    /\ result = OkWord(<<4660, 22136>>)

(***************************************************************************)
(* C14: the PllSettings subfields are bits 31..20 (N), 19..11 (R), 10..5    *)
(* (Q), 4..2 (P) and 1..0 (VCO range): pairwise disjoint, covering all 32  *)
(* bits; a field setter given a value within the field's width stores      *)
(* exactly that value in exactly those bits, the getter returns it, and    *)
(* every other bit of the word is as before.                               *)
(***************************************************************************)
\* bit k of a u32 held as <<bits 31..16, bits 15..0>>
BitOf(w, k) == IF k >= 16 THEN (w[1] \div (2 ^ (k - 16))) % 2 ELSE (w[2] \div (2 ^ k)) % 2

\* the documented place of each subfield
SubfieldBits(f) ==
    CASE f = "pllx_yn" -> 20 .. 31
      [] f = "pllx_yr" -> 11 .. 19
      [] f = "pllx_yq" -> 5 .. 10
      [] f = "pllx_yp" -> 2 .. 4
      [] f = "_vco1x_y_range" -> 0 .. 1

C14_PllSubfields ==
    /\ \A f \in PllSettingsFields :
          PllSettings(f)[2] .. PllSettings(f)[1] = SubfieldBits(f)
    /\ \A f \in PllSettingsFields : \A g \in PllSettingsFields \ {f} :
          SubfieldBits(f) \cap SubfieldBits(g) = {}
    /\ UNION { SubfieldBits(f) : f \in PllSettingsFields } = 0 .. 31
    /\ edit.field \in PllSettingsFields =>
          LET bits == SubfieldBits(edit.field)
              lsb == PllSettings(edit.field)[2]
          IN /\ \A k \in (0 .. 31) \ bits : BitOf(settings, k) = BitOf(edit.before, k)
             /\ \A g \in PllSettingsFields \ {edit.field} :
                   PllSettings_get(settings, g) = PllSettings_get(edit.before, g)
             /\ edit.value < 2 ^ PllSettingsWidth(edit.field) =>
                   /\ \A k \in bits :
                         BitOf(settings, k) = (edit.value \div (2 ^ (k - lsb))) % 2
                   /\ PllSettings_get(settings, edit.field) = edit.value

\* R = 0b101010101 set in 0xFFFFFFFF: bits 19..16 and 15..11 both change
C14_Witness ==
    /\ edit.field = "pllx_yr"
    /\ edit.value = 341
    /\ edit.before = <<65535, 65535>>
    /\ settings = <<65530, 45055>>

(***************************************************************************)
(* C15: CommandCode::new(mode, o) is the byte with bit 7 = 1 iff mode is    *)
(* Byte and bits 6..0 = o mod 128, for both modes and every o in 0..255;   *)
(* o and o + 128 give the same byte.                                       *)
(***************************************************************************)
C15_CommandCode ==
    /\ command \div 128 = (IF built.op_code = OpCodeByte THEN 1 ELSE 0)
    /\ command % 128 = built.offset % 128
    /\ command = CommandCode_new(built.op_code, (built.offset + 128) % 256)

\* offset 0x85 in block mode: the top bit of the offset does not reach bit 7
C15_Witness ==
    /\ built = [op_code |-> OpCodeBlock, offset |-> 133]
    /\ command = 5

(***************************************************************************)
(* C16: every transaction of every operation goes to address 0b1100101;    *)
(* its first byte has bit 7 set (single-byte mode) and the register offset  *)
(* in bits 6..0; a write sends exactly [command, value] and reads nothing, *)
(* a read sends exactly [command] and reads exactly one byte.              *)
(***************************************************************************)
C16_BusFraming ==
    \A k \in 1 .. Len(log) :
        /\ log[k].addr = 64 + 32 + 4 + 1
        /\ log[k].sent[1] \div 128 = 1
        /\ log[k].sent[1] % 128 = Script(call)[k].off % 128
        /\ log[k].rw = Script(call)[k].rw
        /\ log[k].rw = "W" =>
              /\ Len(log[k].sent) = 2
              /\ log[k].sent[2] \in 0 .. 255
              /\ log[k].buf = 0
              /\ log[k].err = 0 => regs[log[k].sent[1] % 128] = log[k].sent[2]
                                     \/ \E j \in k + 1 .. Len(log) : log[j].rw = "W"
        /\ log[k].rw = "R" =>
              /\ Len(log[k].sent) = 1
              /\ log[k].buf = 1

\* write_byte_unchecked(0x85, 0xF8) sends [0x85, 0xF8] to 0x65
C16_Witness ==
    /\ Succeeded
    /\ call = C("write_byte_unchecked", 133, 248)
    /\ Len(log) = 1
    /\ log[1].addr = 101
    /\ log[1].sent = <<133, 248>>
    /\ log[1].buf = 0

(***************************************************************************)
(* C17: initiate_eeprom_write first writes register 0x06 with EEWRITE      *)
(* (bit 0) set, then reads register 0x01 (EEPIP, bit 6) until it reports    *)
(* Completed, and returns a result to the caller after a bounded number    *)
(* of polls.  Stated as the claim has it; the code violates it (the body   *)
(* is todo!(): it panics and issues no transaction).                       *)
(***************************************************************************)
C17_EepromWriteAndPoll ==
    (Returned /\ call.op = "initiate_eeprom_write") =>
        /\ result.tag \in {"Ok", "Err"}
        /\ Len(log) >= 1
        /\ log[1].rw = "W"
        /\ DeviceOffset(log[1].cmd) = 6
        /\ log[1].sent[2] % 2 = 1
        /\ result.tag = "Ok" =>
              /\ Len(log) >= 2
              /\ \A k \in 2 .. Len(log) : log[k].rw = "R" /\ DeviceOffset(log[k].cmd) = 1
              /\ (log[Len(log)].val \div 64) % 2 = 0

(***************************************************************************)
(* C18: the facade keeps no copy of the registers.  Every byte a read      *)
(* returns is what the device holds at that moment; the value a getter     *)
(* returns is decoded from the registers as they are during that call,     *)
(* also when they changed since an earlier call; the byte a setter writes  *)
(* is its closure applied to the byte its own preceding read of the same   *)
(* register returned (or the given byte, for the plain writes).            *)
(***************************************************************************)
\* what register dev holds before transaction k of the running operation
RegisterBefore(k, dev) ==
    LET ws == { j \in 1 .. k - 1 :
                  log[j].rw = "W" /\ log[j].err = 0 /\ DeviceOffset(log[j].cmd) = dev }
    IN IF ws = {} THEN pre[dev]
       ELSE log[CHOOSE j \in ws : \A i \in ws : i <= j].val

C18_NoRegisterShadow ==
    /\ \A k \in 1 .. Len(log) :
          /\ (log[k].rw = "R" /\ log[k].err = 0) =>
                log[k].val = RegisterBefore(k, DeviceOffset(log[k].cmd))
          /\ log[k].rw = "W" =>
                LET st == Script(call)[k]
                IN IF st.fn = "imm"
                   THEN log[k].sent[2] = st.x
                   ELSE /\ k > 1
                        /\ log[k - 1].rw = "R"
                        /\ log[k - 1].err = 0
                        /\ log[k - 1].cmd = log[k].cmd
                        /\ log[k].sent[2] = Closure(st, log[k - 1].val)
    /\ (Succeeded /\ call.op \in GetterOps \cup IndexedGetterOps) =>
          result = Decoded(call, regs)

\* EEPIP went from Completed to InProgress between two status reads, and
\* the second read reports it
C18_Witness ==
    /\ Succeeded
    /\ hist # << >>
    /\ Previous.call.op = "eeprom_programming_status"
    /\ Previous.result = Ok(0)
    /\ call.op = "eeprom_programming_status"
    /\ result = Ok(1)

(***************************************************************************)
(* C19: every transaction of a named accessor targets an offset in         *)
(* 0x00..0x06 or 0x10..0x1F; none writes at 0x20 or beyond, none writes    *)
(* register 0x00.                                                          *)
(***************************************************************************)
NamedAccessorOps ==
    GetterOps \cup IndexedGetterOps \cup SetterOps \cup SscSetterOps
        \cup SelectionSetterOps \cup PllSetterOps
NamedOffsets == (0 .. 6) \cup (16 .. 31)

C19_NamedAccessorOffsets ==
    call.op \in NamedAccessorOps =>
        /\ \A k \in 1 .. Len(Script(call)) :
              /\ Script(call)[k].off \in NamedOffsets
              /\ Script(call)[k].rw = "W" => Script(call)[k].off # 0
        /\ \A k \in 1 .. Len(log) :
              /\ DeviceOffset(log[k].cmd) = Script(call)[k].off
              /\ log[k].rw = "W" => DeviceOffset(log[k].cmd) \in NamedOffsets \ {0}
        /\ regs[0] = pre[0]
        /\ regs[32] = pre[32]

\* the highest offset a named accessor writes: 0x1F, last byte of the
\* second PLL word
C19_Witness ==
    /\ Succeeded
    /\ call.op = "set_pll1_1_settings"
    /\ call.w = <<4660, 22136>>
    /\ Len(log) = 4
    /\ log[4].rw = "W"
    /\ DeviceOffset(log[4].cmd) = 31
    /\ regs[31] = 120
    /\ regs[32] = pre[32]


(***************************************************************************)
(* C20: the eight selector fields occupy pairwise disjoint bit ranges of   *)
(* registers 0x10..0x12, three bits each: indices 7, 6, 4, 3, 1, 0 inside  *)
(* one register, index 5 as bits 1..0 of 0x10 over bit 7 of 0x11, index 2  *)
(* as bit 0 of 0x11 over bits 7..6 of 0x12, and the raw getter recombines  *)
(* the split fields high part first.  Stated as the claim has it; the code *)
(* violates it (ssc1_1 is declared as bits 6..3 of register 0x12: four     *)
(* bits, sharing bit 6 with ssc1_2).                                       *)
(***************************************************************************)
\* the <<register, bit>> positions of a field declared <<msb, lsb>>
FieldBits(bank, offset, f) == { <<bank + offset, b>> : b \in f[2] .. f[1] }

\* the positions the accessors of selector control_input read and replace
SscFieldBits(control_input) ==
    CASE control_input = 7 ->
           FieldBits(Pll1Configuration, 0, Pll1ConfigurationRegister0("ssc1_7"))
      [] control_input = 6 ->
           FieldBits(Pll1Configuration, 0, Pll1ConfigurationRegister0("ssc1_6"))
      [] control_input = 5 ->
           FieldBits(Pll1Configuration, 0, Pll1ConfigurationRegister0("ssc1_5"))
             \cup FieldBits(Pll1Configuration, 1, Pll1ConfigurationRegister1("ssc1_5"))
      [] control_input = 4 ->
           FieldBits(Pll1Configuration, 1, Pll1ConfigurationRegister1("ssc1_4"))
      [] control_input = 3 ->
           FieldBits(Pll1Configuration, 1, Pll1ConfigurationRegister1("ssc1_3"))
      [] control_input = 2 ->
           FieldBits(Pll1Configuration, 1, Pll1ConfigurationRegister1("ssc1_2"))
             \cup FieldBits(Pll1Configuration, 2, Pll1ConfigurationRegister2("ssc1_2"))
      [] control_input = 1 ->
           FieldBits(Pll1Configuration, 2, Pll1ConfigurationRegister2("ssc1_1"))
      [] control_input = 0 ->
           FieldBits(Pll1Configuration, 2, Pll1ConfigurationRegister2("ssc1_0"))

C20_SscFieldLayout ==
    /\ \A i \in U3 : Cardinality(SscFieldBits(i)) = 3
    /\ \A i \in U3 : \A j \in U3 \ {i} : SscFieldBits(i) \cap SscFieldBits(j) = {}
    /\ \A i \in {7, 6, 4, 3, 1, 0} :
          \E r \in 16 .. 18 : \A p \in SscFieldBits(i) : p[1] = r
    /\ SscFieldBits(5) = { <<16, 1>>, <<16, 0>>, <<17, 7>> }
    /\ SscFieldBits(2) = { <<17, 0>>, <<18, 7>>, <<18, 6>> }
    /\ (Succeeded /\ call.op = "spread_spectrum_clocking_selection_raw") =>
          /\ call.ci = 5 =>
                result = Ok(((regs[16] % 4) * 2) + Bit(regs[17], 7))
          /\ call.ci = 2 =>
                result = Ok((Bit(regs[17], 0) * 4) + (regs[18] \div 64))
          /\ result.val \in 0 .. 7


(***************************************************************************)
(* C21: set_pll1_0_settings and set_pll1_1_settings issue four writes in   *)
(* ascending offset order and no read; when the k-th write fails the       *)
(* operation returns that error, the first k-1 registers hold the new      *)
(* bytes, the others their old bytes, and nothing more is sent.            *)
(***************************************************************************)
\* the first register of the word a PLL settings setter writes
PllBase(c) == IF c.op = "set_pll1_0_settings" THEN 24 ELSE 28

C21_PllWriteSequence ==
    call.op \in PllSetterOps =>
        LET base == PllBase(call)
            bytes == to_be_bytes(call.w)
            n == Len(log)
            sent == Cardinality({ k \in 1 .. n : log[k].err = 0 })
        IN /\ n <= 4
           /\ \A k \in 1 .. n :
                 /\ log[k].rw = "W"
                 /\ DeviceOffset(log[k].cmd) = base + k - 1
                 /\ log[k].sent = << log[k].cmd, bytes[k] >>
                 /\ log[k].err # 0 =>
                       (k = n /\ Returned /\ result = Err(log[k].err))
           /\ Returned => (n = 4 \/ log[n].err # 0)
           /\ Succeeded => (n = 4 /\ sent = 4 /\ result = Ok(0))
           /\ \A k \in 1 .. 4 :
                 regs[base + k - 1] = IF k <= sent THEN bytes[k] ELSE pre[base + k - 1]
           /\ \A o \in DeviceOffsets \ (base .. base + 3) : regs[o] = pre[o]

\* the third write of set_pll1_0_settings failed: 0x18 and 0x19 hold the new
\* bytes, 0x1A and 0x1B the old ones
C21_Witness ==
    /\ Returned
    /\ call.op = "set_pll1_0_settings"
    /\ call.w = <<4660, 22136>>
    /\ result = Err(1)
    /\ Len(log) = 3
    /\ log[3].err = 1
    /\ regs[24] = 18
    /\ regs[25] = 52
    /\ pre[24] = 255
    /\ regs[26] = pre[26]
    /\ regs[27] = pre[27]
    /\ pre[26] = 255


(***************************************************************************)
(* C23: for the three per-index single-bit selector families (Y1 state in  *)
(* register 0x04, FS1 in 0x13, Y2Y3 state in 0x15) a successful set(i, s)  *)
(* makes bit i of the register equal to s and leaves the other seven bits  *)
(* as they were, so get(i) returns s and get(j) is unchanged for j # i.    *)
(***************************************************************************)
\* setter, getter and register of each family
SelectionAccessors ==
    { <<"set_y1_state_selection", "y1_state_selection", 4>>,
      <<"set_pll1_frequency_selection", "pll1_frequency_selection", 19>>,
      <<"set_y2y3_state_selection", "y2y3_state_selection", 21>> }

C23_SelectionBits ==
    \A p \in SelectionAccessors :
        /\ (Succeeded /\ call.op = p[1]) =>
              /\ Bit(regs[p[3]], call.ci) = call.v
              /\ \A j \in U3 \ {call.ci} : Bit(regs[p[3]], j) = Bit(pre[p[3]], j)
              /\ \A o \in DeviceOffsets \ {p[3]} : regs[o] = pre[o]
              /\ Decoded(C(p[2], call.ci, 0), regs) = Ok(call.v)
              /\ \A j \in U3 \ {call.ci} :
                    Decoded(C(p[2], j, 0), regs) = Decoded(C(p[2], j, 0), pre)
        /\ ReadBackOf(p[1], p[2]) =>
              result = IF call.ci = Previous.call.ci
                       THEN Ok(Previous.call.v)
                       ELSE Ok(Bit(Previous.pre[p[3]], call.ci))

\* FS1_3 set to Fvcxo0 over 0xFF in register 0x13 leaves 0xF7, and FS1_3
\* reads back Fvcxo0
C23_Witness ==
    /\ ReadBackOf("set_pll1_frequency_selection", "pll1_frequency_selection")
    /\ Previous.call.ci = 3
    /\ Previous.call.v = 0
    /\ Previous.pre[19] = 255
    /\ call.ci = 3
    /\ regs[19] = 247
    /\ result = Ok(0)


(***************************************************************************)
(* C24: the per-register layouts of offsets 0x18..0x1B and 0x1C..0x1F      *)
(* agree with the packed PllSettings word: for bytes b0..b3 assembled      *)
(* big-endian, N = (b0 << 4) | bits 7..4 of b1, R = (bits 3..0 of b1 << 5) *)
(* | bits 7..3 of b2, Q = (bits 2..0 of b2 << 3) | bits 7..5 of b3,        *)
(* P = bits 4..2 of b3, VCO range = bits 1..0 of b3.                       *)
(***************************************************************************)
\* the fields the per-register layouts of PLL1_x (x = 0: registers 8..B,
\* x = 1: registers C..F) extract from the bytes b
PllByteFields(x, b) ==
    IF x = 0
    THEN [n_11_4 |-> get(b[1], Pll1ConfigurationRegister8("pll1_0n_11_4")),
          n_3_0  |-> get(b[2], Pll1ConfigurationRegister9("pll1_0n_3_0")),
          r_8_5  |-> get(b[2], Pll1ConfigurationRegister9("pll1_0r_8_5")),
          r_4_0  |-> get(b[3], Pll1ConfigurationRegisterA("pll1_0r_4_0")),
          q_5_3  |-> get(b[3], Pll1ConfigurationRegisterA("pll1_0q_5_3")),
          q_2_0  |-> get(b[4], Pll1ConfigurationRegisterB("pll1_0q_2_0")),
          p_2_0  |-> get(b[4], Pll1ConfigurationRegisterB("pll1_0p_2_0")),
          range  |-> get(b[4], Pll1ConfigurationRegisterB("_vco1_0_range"))]
    ELSE [n_11_4 |-> get(b[1], Pll1ConfigurationRegisterC("pll1_1n_11_4")),
          n_3_0  |-> get(b[2], Pll1ConfigurationRegisterD("pll1_1n_3_0")),
          r_8_5  |-> get(b[2], Pll1ConfigurationRegisterD("pll1_1r_8_5")),
          r_4_0  |-> get(b[3], Pll1ConfigurationRegisterE("pll1_1r_4_0")),
          q_5_3  |-> get(b[3], Pll1ConfigurationRegisterE("pll1_1q_5_3")),
          q_2_0  |-> get(b[4], Pll1ConfigurationRegisterF("pll1_1q_2_0")),
          p_2_0  |-> get(b[4], Pll1ConfigurationRegisterF("pll1_1p_2_0")),
          range  |-> get(b[4], Pll1ConfigurationRegisterF("_vco1_1_range"))]

C24_ByteLayoutsAgree ==
    LET b == to_be_bytes(settings)
        w == from_be_bytes(b)
    IN /\ w = settings
       /\ \A x \in {0, 1} :
             LET p == PllByteFields(x, b)
             IN /\ p.n_11_4 = b[1]
                /\ p.n_3_0 = b[2] \div 16
                /\ p.r_8_5 = b[2] % 16
                /\ p.r_4_0 = b[3] \div 8
                /\ p.q_5_3 = b[3] % 8
                /\ p.q_2_0 = b[4] \div 32
                /\ p.p_2_0 = (b[4] \div 4) % 8
                /\ p.range = b[4] % 4
                /\ PllSettings_get(w, "pllx_yn") = p.n_11_4 * 16 + p.n_3_0
                /\ PllSettings_get(w, "pllx_yr") = p.r_8_5 * 32 + p.r_4_0
                /\ PllSettings_get(w, "pllx_yq") = p.q_5_3 * 8 + p.q_2_0
                /\ PllSettings_get(w, "pllx_yp") = p.p_2_0
                /\ PllSettings_get(w, "_vco1x_y_range") = p.range

\* R = 0b101010101 set in 0xFFFFFFFF: the word is 0xFFFAAFFF, its bytes
\* FF FA AF FF, and R is 0xA << 5 | 0x15
C24_Witness ==
    /\ edit.field = "pllx_yr"
    /\ edit.value = 341
    /\ settings = <<65530, 45055>>
    /\ to_be_bytes(settings) = <<255, 250, 175, 255>>
    /\ PllByteFields(0, to_be_bytes(settings)).r_8_5 = 10
    /\ PllByteFields(1, to_be_bytes(settings)).r_4_0 = 21
    /\ PllSettings_get(from_be_bytes(to_be_bytes(settings)), "pllx_yr") = 341


(***************************************************************************)
(* C22: a read-modify-write cycle is not atomic on the bus.  Serialized,   *)
(* two setters of different non-overlapping fields of one register both    *)
(* take effect, in either order; when another writer's write to the same   *)
(* register lands between a setter's read and its write-back, the          *)
(* write-back restores the stale bits and the other update is lost.        *)
(***************************************************************************)
\* register, field and value of a single-register setter, from its write step
SetterRegister(c) == StepOffset(Script(c)[2])
SetterField(c) == Script(c)[2].f
SetterValue(c) == Script(c)[2].x
Disjoint(f, g) == (g[2] .. g[1]) \cap (f[2] .. f[1]) = {}

C22_LostUpdate ==
    /\ (Succeeded /\ hist # << >>) =>
          LET first == Previous.call
              r == SetterRegister(call)
          IN (SetterRegister(first) = r
                 /\ Disjoint(SetterField(first), SetterField(call))) =>
                /\ get(regs[r], SetterField(first)) = SetterValue(first)
                /\ get(regs[r], SetterField(call)) = SetterValue(call)
                /\ \A k \in (0 .. 7) \ ((SetterField(first)[2] .. SetterField(first)[1])
                                          \cup (SetterField(call)[2] .. SetterField(call)[1])) :
                      Bit(regs[r], k) = Bit(Previous.pre[r], k)
    /\ other # NoOther =>
          LET r == SetterRegister(call)
              theirs == SetterField(other.call)
          IN /\ rd = << other.before >>
             /\ pc = "busy" => regs[r] = Closure(Script(other.call)[2], other.before)
             /\ Succeeded =>
                   /\ regs[r] = Closure(Script(call)[2], other.before)
                   /\ Disjoint(theirs, SetterField(call)) =>
                         get(regs[r], theirs) = get(other.before, theirs)

\* set_power_down(true) read 0x00 from register 0x01, the other master set
\* the target address to 0b10 (0x02 on the device), and the write-back left
\* 0x10: the address is 0b00 again
C22_Witness ==
    /\ Succeeded
    /\ call = C("set_power_down", 0, 1)
    /\ other.call = C("set_target_address", 0, 2)
    /\ other.before = 0
    /\ pre[1] = 0
    /\ rd = << 0 >>
    /\ log[2].val = 16
    /\ regs[1] = 16
    /\ get(regs[1], SetterField(other.call)) # SetterValue(other.call)

=============================================================================
